---- MODULE Spec2Model ----
(***************************************************************************)
(* The file-backed CRUD adapter (yamlCRUD) and the write gate (Mutex) of   *)
(* asasvirtuais/crud, as a state machine.                                  *)
(*                                                                         *)
(* Encoding of JavaScript values: every field value is an integer.         *)
(*   Undefined  the value `undefined`                                      *)
(*   EmptyId    the empty string "" used as an id                          *)
(*   1, 2, ...  ordinary values; as ids, n is the string returned by the   *)
(*              n-th call of generateId()                                  *)
(* A record (a JavaScript object) is a function from the set of its own    *)
(* keys to values.  A YAML document is a sequence of <<key, value>> lines. *)
(***************************************************************************)
EXTENDS Integers, Sequences, FiniteSets, TLC

\* ------------------------------------------------------------------ bounds
MaxIds == 2        \* calls of generateId(), i.e. of create
MaxOps == 2        \* operations scheduled on the write gate

\* ------------------------------------------------------------------ values
Undefined == -1
EmptyId == 0

Tables == {"t1", "t2"}
Fields == {"id", "a"}
KeyOrder == <<"id", "a">>

\* The ids a caller can pass to find/update/remove.
CallIds == 0..MaxIds

\* The values a caller can submit for a field.
FieldVals(f) ==
    CASE f = "id" -> {EmptyId}
      [] OTHER    -> {Undefined, 1, 2}

\* The data mappings a caller can submit (CreateProps.data, UpdateProps.data).
Data ==
    UNION { { d \in [S -> Undefined..2] : \A f \in S : d[f] \in FieldVals(f) } :
            S \in SUBSET Fields }

VARIABLES
    dirs,      \* the table directories that exist
    files,     \* the record files: recordPath -> YAML document
    nextId,    \* how many ids generateId() has handed out
    ops,       \* the operations passed to fileMutex.run, in submission order
    removed,   \* history: the paths a remove() has returned successfully for
    index,     \* the table provider's index: id -> record
    backend,   \* the records behind the provider's CRUD methods: id -> record
    calls      \* the provider's actions triggered so far, in trigger order

\* The state of the adapter and of the gate, and that of the table provider.
adapter == <<dirs, files, nextId, ops, removed>>
provider == <<index, backend, calls>>

vars == <<dirs, files, nextId, ops, removed, index, backend, calls>>

\* ------------------------------------------------------------------ helpers
\* JavaScript property read: a missing key reads as undefined.
Get(r, f) == IF f \in DOMAIN r THEN r[f] ELSE Undefined

\* Object spread { ...base, ...over }: keys of `over` win.
Spread(base, over) == over @@ base

\* The record { id }.
IdOnly(id) == [f \in {"id"} |-> id]

Ok(v) == [ok |-> TRUE, error |-> "", value |-> v]
Throw(e) == [ok |-> FALSE, error |-> e, value |-> <<>>]

\* ------------------------------------------------------------------ YAML
\* YAML.stringify: one line per own key whose value is defined (a key holding
\* undefined is dropped).
YAMLstringify(r) ==
    LET keep(i) == KeyOrder[i] \in DOMAIN r /\ r[KeyOrder[i]] # Undefined
        F[i \in 0..Len(KeyOrder)] ==
            IF i = 0 THEN <<>>
            ELSE IF keep(i) THEN Append(F[i - 1], <<KeyOrder[i], r[KeyOrder[i]]>>)
            ELSE F[i - 1]
    IN  F[Len(KeyOrder)]

\* YAML.parse: the mapping the document's lines spell.
YAMLparse(text) ==
    LET keys == { text[i][1] : i \in DOMAIN text }
    IN  [k \in keys |-> text[CHOOSE i \in DOMAIN text : text[i][1] = k][2]]

\* ------------------------------------------------------------------ files
tablePath(name) == name
recordPath(table, id) == <<table, id>>

\* fs.existsSync on a record file.
existsSync(path) == path \in DOMAIN files

\* A readRecord that does not look whether the file exists: an absent file
\* reads as an empty record.
readRecordMissingUnchecked(table, id) ==
    Ok(IF existsSync(recordPath(table, id))
       THEN YAMLparse(files[recordPath(table, id)]) ELSE <<>>)

\* fs.readFileSync: the document, or the error of a file the process may not
\* read (such a file is kept as the document NoAccess).
NoAccess == << <<"EACCES", Undefined>> >>
readFileSync(path) ==
    IF files[path] = NoAccess THEN Throw("EACCES") ELSE Ok(files[path])

\* The documents YAML.parse accepts: every line is a key of a mapping.
\* Malformed is a document it throws on (an unterminated flow mapping).
Malformed == << <<"{", Undefined>> >>
WellFormed(text) == \A i \in DOMAIN text : text[i][1] \in Fields

\* readRecord: throws when the file is absent, when it cannot be read and
\* when YAML.parse throws; else the parsed record.
readRecord(table, id) ==
    LET path == recordPath(table, id) IN
    IF ~existsSync(path) THEN Throw("NotFound")
    ELSE IF ~readFileSync(path).ok THEN Throw(readFileSync(path).error)
    ELSE IF ~WellFormed(readFileSync(path).value) THEN Throw("YAMLParseError")
    ELSE Ok(YAMLparse(readFileSync(path).value))

\* An id generator that numbers the record after the files it finds.
generateIdFromCount == Cardinality(DOMAIN files) + 1

\* generateId(): the n-th call returns a string no earlier call returned.
generateId == nextId + 1

\* ------------------------------------------------------------------ write gate
\* A run() whose handle does not wait for the operation: it counts as
\* fulfilled as soon as the operation is scheduled.
ResultStateNotAwaited(k) ==
    IF ops[k].st = "rejected" THEN "rejected" ELSE "fulfilled"

\* The settled state of the promise `result` of the k-th run().
ResultState(k) ==
    IF ops[k].st \in {"queued", "running"} THEN "pending" ELSE ops[k].st

\* A chain without the catch: this.promise = result.
CatchKeepsRejection(state) == state

\* result.catch(() => {}): a rejection is swallowed.
Catch(state) == IF state = "rejected" THEN "fulfilled" ELSE state

\* A gate that never replaces this.promise: every run() chains on the
\* initial Promise.resolve().
MutexPromiseStale(k) == "fulfilled"

\* this.promise as the (k+1)-th run() finds it: Promise.resolve() at first,
\* then the caught result of the k-th run().
MutexPromise(k) == IF k = 0 THEN "fulfilled" ELSE Catch(ResultState(k))

\* A call on the adapter disturbs the earlier calls: none of them ran alone
\* from then on, and those on the same table were not left quiet.
Disturb(table) ==
    [k \in DOMAIN ops |->
        [ops[k] EXCEPT !.alone = FALSE,
                       !.quiet = IF ops[k].table = table THEN FALSE ELSE @]]

\* Mutex.run(fn), fn = () => writeFile(recordPath(table, id), stringify(record)):
\* result = this.promise.then(fn); this.promise = result.catch(...).
\* kind, base and data are kept with the operation for the record of the call;
\* alone: no other call was in flight when it was made, nor made since;
\* quiet: the same, for calls on the same table.
run(kind, table, id, base, data, record) ==
    Disturb(table) \o
    << [kind |-> kind, table |-> table, id |-> id, base |-> base, data |-> data,
        record |-> record, st |-> "queued", err |-> 0, ret |-> "pending",
        alone |-> \A k \in DOMAIN ops : ops[k].ret # "pending",
        quiet |-> \A k \in DOMAIN ops :
                      ops[k].table = table => ops[k].ret # "pending"] >>

\* The reaction of this.promise.then(fn) for the k-th run(): once the promise
\* it was chained on settles, fn starts (fulfilled) or result rejects with the
\* reason it was handed (rejected).
MutexThen(k) ==
    /\ k \in DOMAIN ops
    /\ ops[k].st = "queued"
    /\ MutexPromise(k - 1) # "pending"
    /\ ops' = [ops EXCEPT ![k] =
                  IF MutexPromise(k - 1) = "fulfilled"
                  THEN [@ EXCEPT !.st = "running"]
                  ELSE [@ EXCEPT !.st = "rejected", !.err = ops[k - 1].err]]
    /\ UNCHANGED <<dirs, files, nextId, removed, provider>>

\* fs/promises writeFile of the k-th run() settles: the document replaces the
\* file, or the write fails with an I/O error and the k-th result rejects.
writeFile(k, io) ==
    /\ k \in DOMAIN ops
    /\ ops[k].st = "running"
    /\ IF io = "ok" /\ tablePath(ops[k].table) \in dirs
       THEN /\ files' = (recordPath(ops[k].table, ops[k].id)
                            :> YAMLstringify(ops[k].record)) @@ files
            /\ ops' = [ops EXCEPT ![k].st = "fulfilled"]
       ELSE /\ files' = files
            /\ ops' = [ops EXCEPT ![k].st = "rejected", ![k].err = k]
    /\ UNCHANGED <<dirs, nextId, removed, provider>>

\* `await fileMutex.run(...)` resumes in create/update: the call returns its
\* record, or rejects with the reason result rejected with.
resume(k) ==
    /\ k \in DOMAIN ops
    /\ ops[k].ret = "pending"
    /\ ResultState(k) # "pending"
    /\ ops' = [ops EXCEPT ![k].ret =
                  IF ResultState(k) = "fulfilled" THEN "resolved" ELSE "rejected"]
    /\ UNCHANGED <<dirs, files, nextId, removed, provider>>

\* ------------------------------------------------------------------ adapter
\* Each handler, up to its first await, as a function of the state: whether
\* it threw, and the state it leaves.

\* find: readRecord.
findCall(table, id) == readRecord(table, id)

\* create: existsSync/mkdirSync, generateId, { id, ...data }, fileMutex.run.
createRecord(id, data) == Spread(IdOnly(id), data)

createCall(table, data) ==
    [threw |-> FALSE, error |-> "",
     dirs |-> dirs \cup {tablePath(table)},
     nextId |-> nextId + 1,
     ops |-> run("create", table, generateId, <<>>, data,
                 createRecord(generateId, data))]

\* A merge in which the stored fields win: { ...data, ...record }.
updatedRecordStoredWins(record, data) == Spread(data, record)

\* update: readRecord throws before anything is scheduled; else
\* { ...record, ...data } goes to fileMutex.run.
updatedRecord(record, data) == Spread(record, data)

updateCall(table, id, data) ==
    LET record == readRecord(table, id) IN
    IF ~record.ok
    THEN [threw |-> TRUE, error |-> record.error, ops |-> ops]
    ELSE [threw |-> FALSE, error |-> "",
          ops |-> run("update", table, id, record.value, data,
                      updatedRecord(record.value, data))]

\* A remove that returns the record and leaves the file in place.
removeCallKeepsFile(table, id) ==
    LET data == readRecord(table, id) IN
    IF ~data.ok
    THEN [threw |-> TRUE, error |-> data.error, value |-> <<>>,
          files |-> files, ops |-> ops]
    ELSE [threw |-> FALSE, error |-> "",
          value |-> Spread(IdOnly(id), data.value),
          files |-> files, ops |-> Disturb(table)]

\* remove: readRecord, existsSync, unlinkSync, { id, ...data }; no await.
removeCall(table, id) ==
    LET data == readRecord(table, id) IN
    IF ~data.ok
    THEN [threw |-> TRUE, error |-> data.error, value |-> <<>>,
          files |-> files, ops |-> ops]
    ELSE [threw |-> FALSE, error |-> "",
          value |-> Spread(IdOnly(id), data.value),
          files |-> [p \in DOMAIN files \ {recordPath(table, id)} |-> files[p]],
          ops |-> Disturb(table)]

\* ------------------------------------------------------------------ list
\* A query is [given, filters, sort, skip, limit, selected, select]:
\*   given     FALSE for an absent query
\*   filters   the keys left after taking $limit, $skip, $sort and $select
\*             out: a sequence of <<key, constraint>>; a constraint is
\*             [object |-> FALSE, value |-> v] (a scalar) or
\*             [object |-> TRUE, entries |-> a sequence of [op, array, vals]]
\*             (array: the operand is an array, vals: its elements in order,
\*             or the one operand)
\*   sort      the keys of $sort in order with their directions, <<>> when
\*             absent or empty
\*   skip, limit   Undefined when absent
\*   selected, select   whether $select is given, and its keys in order

\* JavaScript comparisons on the encoded values: undefined compares false.
JsLt(x, y) == x # Undefined /\ y # Undefined /\ x < y
JsGt(x, y) == x # Undefined /\ y # Undefined /\ x > y

\* An includes that looks at the first element only.
IncludesFirst(vals, x) == vals # <<>> /\ vals[1] = x

\* opValue.includes(recordValue).
Includes(vals, x) == \E i \in DOMAIN vals : vals[i] = x

\* The switch on the operator name.  $search needs a string record value;
\* the values of the searched field "a" are numbers or undefined.
OperatorHolds(e, recordValue) ==
    CASE e.op = "$ne"  -> recordValue # e.vals[1]
      [] e.op = "$in"  -> e.array /\ Includes(e.vals, recordValue)
      [] e.op = "$nin" -> e.array /\ ~Includes(e.vals, recordValue)
      [] e.op = "$lt"  -> JsLt(recordValue, e.vals[1])
      [] e.op = "$lte" -> JsLt(recordValue, e.vals[1]) \/
                          (recordValue # Undefined /\ recordValue = e.vals[1])
      [] e.op = "$gt"  -> JsGt(recordValue, e.vals[1])
      [] e.op = "$gte" -> JsGt(recordValue, e.vals[1]) \/
                          (recordValue # Undefined /\ recordValue = e.vals[1])
      [] e.op = "$search" -> FALSE
      [] OTHER -> TRUE

\* Object.entries(filters).every(...) for one record.
Matches(filters, record) ==
    \A i \in DOMAIN filters :
        LET recordValue == Get(record, filters[i][1])
            c == filters[i][2]
        IN  IF c.object
            THEN \A j \in DOMAIN c.entries : OperatorHolds(c.entries[j], recordValue)
            ELSE recordValue = c.value

\* records.filter(...): the matching records, order kept.
Filter(filters, records) ==
    LET F[i \in 0..Len(records)] ==
            IF i = 0 THEN <<>>
            ELSE IF Matches(filters, records[i]) THEN Append(F[i - 1], records[i])
            ELSE F[i - 1]
    IN  F[Len(records)]

\* The comparator of records.sort for the first key of $sort.
Compare(sort, x, y) ==
    LET key == sort[1][1]
        direction == IF sort[1][2] = 1 THEN 1 ELSE -1
    IN  IF JsLt(Get(x, key), Get(y, key)) THEN -1 * direction
        ELSE IF JsGt(Get(x, key), Get(y, key)) THEN direction
        ELSE 0

\* Array.prototype.sort as Node's engine runs it on fewer than 64 elements:
\* the leading run is counted (and reversed when strictly descending), then
\* every later element is placed by binary insertion.  With a comparator that
\* orders the elements consistently this is the stable sort; the comparator
\* above returns 0 against a record without the key, and then the outcome is
\* what these steps give.
CountRun(sort, a) ==
    LET descending == Compare(sort, a[2], a[1]) < 0
        goesOn(idx) == IF descending
                       THEN Compare(sort, a[idx], a[idx - 1]) < 0
                       ELSE Compare(sort, a[idx], a[idx - 1]) >= 0
        runs == { r \in 2..Len(a) : \A idx \in 3..r : goesOn(idx) }
    IN  [descending |-> descending,
         length |-> CHOOSE r \in runs : \A q \in runs : q <= r]

Reverse(a) == [i \in 1..Len(a) |-> a[Len(a) + 1 - i]]

MakeRun(sort, a) ==
    LET counted == CountRun(sort, a)
    IN  IF counted.descending
        THEN Reverse(SubSeq(a, 1, counted.length)) \o
             SubSeq(a, counted.length + 1, Len(a))
        ELSE a

\* The place binary insertion finds for pivot in the sorted prefix: the
\* number of elements left before it.
BinarySearch(sort, prefix, pivot) ==
    LET B[left \in 0..Len(prefix), right \in 0..Len(prefix)] ==
            IF left < right
            THEN LET mid == left + ((right - left) \div 2)
                 IN  IF Compare(sort, pivot, prefix[mid + 1]) < 0
                     THEN B[left, mid]
                     ELSE B[mid + 1, right]
            ELSE left
    IN  B[0, Len(prefix)]

BinaryInsertionSort(sort, a, start) ==
    LET F[n \in (start - 1)..Len(a)] ==
            IF n = start - 1 THEN SubSeq(a, 1, start - 1)
            ELSE LET at == BinarySearch(sort, F[n - 1], a[n])
                 IN  SubSeq(F[n - 1], 1, at) \o <<a[n]>> \o
                     SubSeq(F[n - 1], at + 1, n - 1)
    IN  F[Len(a)]

Sort(sort, records) ==
    IF sort = <<>> \/ Len(records) < 2 THEN records
    ELSE BinaryInsertionSort(sort, MakeRun(sort, records),
                             CountRun(sort, records).length + 1)

\* $skip || 0, $limit || records.length, records.slice(skip, skip + limit).
Paginate(query, records) ==
    LET skip == IF query.skip \in {Undefined, 0} THEN 0 ELSE query.skip
        limit == IF query.limit \in {Undefined, 0} THEN Len(records) ELSE query.limit
        last == IF skip + limit < Len(records) THEN skip + limit ELSE Len(records)
    IN  SubSeq(records, skip + 1, last)

\* { id: record.id } and then selectedRecord[key] = record[key] per key.
Project(select, record) ==
    [f \in {"id"} \cup { select[i] : i \in DOMAIN select } |-> Get(record, f)]

Shape(query, records) ==
    LET paged == Paginate(query, Sort(query.sort, Filter(query.filters, records)))
    IN  IF query.selected
        THEN [i \in DOMAIN paged |-> Project(query.select, paged[i])]
        ELSE paged

\* A list that takes the table directory to exist.
dirExistsAssumed(path) == TRUE

\* fs.existsSync on a table directory.
dirExists(path) == path \in dirs

\* fs.readdirSync: the ids of the table's *.yaml files in name order; throws
\* on a missing directory.
readdirSync(table) ==
    LET ids == { p[2] : p \in { q \in DOMAIN files : q[1] = table } }
        F[n \in 0..Cardinality(ids)] ==
            IF n = 0 THEN <<>>
            ELSE Append(F[n - 1],
                        CHOOSE i \in ids :
                            Cardinality({ j \in ids : j < i }) = n - 1)
    IN  IF tablePath(table) \in dirs THEN Ok(F[Cardinality(ids)])
        ELSE Throw("ENOENT")

\* A read loop without the try/catch: it ends at the first record whose read
\* throws.
ReadAllUntilFailure(table, ids) ==
    LET good == { n \in 0..Len(ids) :
                    \A m \in 1..n : readRecord(table, ids[m]).ok }
        last == CHOOSE n \in good : \A m \in good : m <= n
    IN  [n \in 1..last |-> readRecord(table, ids[n]).value]

\* The read loop: a record whose read throws is skipped.
ReadAll(table, ids) ==
    LET F[n \in 0..Len(ids)] ==
            IF n = 0 THEN <<>>
            ELSE IF readRecord(table, ids[n]).ok
                 THEN Append(F[n - 1], readRecord(table, ids[n]).value)
            ELSE F[n - 1]
    IN  F[Len(ids)]

\* list: the result, and the directories it leaves.
listCall(table, query) ==
    IF ~dirExists(tablePath(table))
    THEN [threw |-> FALSE, error |-> "", value |-> <<>>, dirs |-> dirs]
    ELSE IF ~readdirSync(table).ok
    THEN [threw |-> TRUE, error |-> readdirSync(table).error, value |-> <<>>,
          dirs |-> dirs]
    ELSE [threw |-> FALSE, error |-> "", dirs |-> dirs,
          value |-> IF query.given
                    THEN Shape(query, ReadAll(table, readdirSync(table).value))
                    ELSE ReadAll(table, readdirSync(table).value)]

\* The queries the model lists with.
Scalar(v) == [object |-> FALSE, value |-> v, entries |-> <<>>]
Object(entries) == [object |-> TRUE, value |-> Undefined, entries |-> entries]
Operator(op, v) == [op |-> op, array |-> FALSE, vals |-> <<v>>]
ArrayOperator(op, vals) == [op |-> op, array |-> TRUE, vals |-> vals]

NoQuery ==
    [given |-> FALSE, filters |-> <<>>, sort |-> <<>>, skip |-> Undefined,
     limit |-> Undefined, selected |-> FALSE, select |-> <<>>]

EmptyQuery == [NoQuery EXCEPT !.given = TRUE]

Queries ==
    { NoQuery, EmptyQuery,
      [EmptyQuery EXCEPT !.filters = << <<"a", Scalar(1)>> >>],
      [EmptyQuery EXCEPT !.filters = << <<"a", Object(<<Operator("$gte", 2)>>)>> >>],
      [EmptyQuery EXCEPT !.filters = << <<"id", Object(<<ArrayOperator("$in", <<>>)>>)>> >>],
      [EmptyQuery EXCEPT !.sort = << <<"a", -1>> >>, !.limit = 1],
      [EmptyQuery EXCEPT !.skip = 1, !.selected = TRUE, !.select = <<"a">>] }

\* ------------------------------------------------------------------ actions
create(table, data) ==
    /\ nextId < MaxIds
    /\ Len(ops) < MaxOps
    /\ dirs' = createCall(table, data).dirs
    /\ nextId' = createCall(table, data).nextId
    /\ ops' = createCall(table, data).ops
    /\ UNCHANGED <<files, removed, provider>>

update(table, id, data) ==
    /\ Len(updateCall(table, id, data).ops) <= MaxOps
    /\ ops' = updateCall(table, id, data).ops
    /\ UNCHANGED <<dirs, files, nextId, removed, provider>>

remove(table, id) ==
    /\ files' = removeCall(table, id).files
    /\ ops' = removeCall(table, id).ops
    /\ removed' = IF removeCall(table, id).threw THEN removed
                  ELSE removed \cup {recordPath(table, id)}
    /\ UNCHANGED <<dirs, nextId, provider>>

\* find and list read the state and leave it as it is.
find(table, id) ==
    /\ findCall(table, id).ok \in BOOLEAN
    /\ UNCHANGED vars

list(table, query) ==
    /\ dirs' = listCall(table, query).dirs
    /\ UNCHANGED <<files, nextId, ops, removed, provider>>

\* ------------------------------------------------------------------ machine
\* No table provider is mounted.
Unmounted == index = <<>> /\ backend = <<>> /\ calls = <<>>

Init ==
    /\ dirs = {}
    /\ files = <<>>
    /\ nextId = 0
    /\ ops = <<>>
    /\ removed = {}
    /\ Unmounted

Next ==
    \/ \E t \in Tables, d \in Data : create(t, d)
    \/ \E t \in Tables, i \in CallIds, d \in Data : update(t, i, d)
    \/ \E t \in Tables, i \in CallIds : remove(t, i)
    \/ \E t \in Tables, i \in CallIds : find(t, i)
    \/ \E t \in Tables, q \in Queries : list(t, q)
    \/ \E k \in DOMAIN ops : MutexThen(k)
    \/ \E k \in DOMAIN ops, io \in {"ok", "EIO"} : writeFile(k, io)
    \/ \E k \in DOMAIN ops : resume(k)

Spec == Init /\ [][Next]_vars

\* Every write that is scheduled is eventually started, every write that is
\* started eventually settles (the file system answers), and every await
\* eventually resumes (the event loop runs its jobs).
FairSpec ==
    /\ Spec
    /\ \A k \in 1..MaxOps :
          /\ WF_vars(MutexThen(k))
          /\ WF_vars(\E io \in {"ok", "EIO"} : writeFile(k, io))
          /\ WF_vars(resume(k))

\* The same, except that a write to a file of table t1 may take for ever.
SlowTableSpec ==
    /\ Spec
    /\ \A k \in 1..MaxOps :
          /\ WF_vars(MutexThen(k))
          /\ WF_vars(\E io \in {"ok", "EIO"} :
                        writeFile(k, io) /\ ops[k].table # "t1")
          /\ WF_vars(resume(k))

\* The adapter opened on a database in which table t1 already holds the
\* record with id 1 that an earlier create wrote; jobs and writes settle as
\* in FairSpec.
StoredInit ==
    /\ dirs = {tablePath("t1")}
    /\ files \in { recordPath("t1", 1) :>
                      YAMLstringify(createRecord(1, [f \in {"a"} |-> v])) :
                  v \in FieldVals("a") }
    /\ nextId = 1
    /\ ops = <<>>
    /\ removed = {}
    /\ Unmounted

StoredSpec ==
    /\ StoredInit /\ [][Next]_vars
    /\ \A k \in 1..MaxOps :
          /\ WF_vars(MutexThen(k))
          /\ WF_vars(\E io \in {"ok", "EIO"} : writeFile(k, io))
          /\ WF_vars(resume(k))

\* ------------------------------------------------------------------ properties
\* Two records are equal field for field: every field reads the same.
SameRecord(r, s) == \A f \in Fields : Get(r, f) = Get(s, f)

\* The records stored in a table, by file.
Stored(table) == { p \in DOMAIN files : p[1] = table }
RecordAt(p) == YAMLparse(files[p])

\* C1: a record R returned by create is found again under R.id, equal to R
\* field for field, as long as no other call was made on its table.
C1_CreateFindRoundTrip ==
    \A k \in DOMAIN ops :
        (ops[k].kind = "create" /\ ops[k].ret = "resolved" /\ ops[k].quiet)
        => LET found == findCall(ops[k].table, Get(ops[k].record, "id"))
           IN  found.ok /\ SameRecord(found.value, ops[k].record)

\* C2: an update of a record whose id is I returns a record whose id is I, and
\* the record then stored under I has id I.
C2_UpdateKeepsId ==
    \A k \in DOMAIN ops :
        (/\ ops[k].kind = "update"
         /\ Get(ops[k].base, "id") = ops[k].id
         /\ ops[k].ret = "resolved")
        => /\ Get(ops[k].record, "id") = ops[k].id
           /\ ops[k].quiet =>
                 /\ findCall(ops[k].table, ops[k].id).ok
                 /\ Get(findCall(ops[k].table, ops[k].id).value, "id") = ops[k].id

\* C3: every stored record has a non-empty id, no two records of a table
\* share an id, list never returns two records with the same id, and the
\* record a create would write has an id no stored record of the table has.
C3_IdsUnique ==
    \A t \in Tables :
        /\ \A p \in Stored(t) : Get(RecordAt(p), "id") \notin {Undefined, EmptyId}
        /\ \A p, q \in Stored(t) :
              p # q => Get(RecordAt(p), "id") # Get(RecordAt(q), "id")
        /\ LET listed == listCall(t, NoQuery).value
           IN  \A i, j \in DOMAIN listed :
                   i # j => Get(listed[i], "id") # Get(listed[j], "id")
        /\ nextId < MaxIds =>
              \A d \in Data, p \in Stored(t) :
                  Get(createRecord(generateId, d), "id") # Get(RecordAt(p), "id")

\* C4: once remove(table, id) has returned a record, find(table, id) fails
\* with NotFound ever after.
C4_RemovalIsPermanent ==
    \A p \in removed :
        /\ ~findCall(p[1], p[2]).ok
        /\ findCall(p[1], p[2]).error = "NotFound"

\* No call on the adapter is in flight.
Idle == \A k \in DOMAIN ops : ops[k].ret # "pending"

\* While an update that runs alone is in flight, no file but its own changes.
C5_OtherRecordsKept ==
    \A k \in DOMAIN ops :
        (/\ ops[k].kind = "update" /\ ops[k].ret = "pending"
         /\ ops[k].alone /\ ops'[k].alone)
        => \A p \in (DOMAIN files \cup DOMAIN files') \
                        {recordPath(ops[k].table, ops[k].id)} :
               p \in DOMAIN files /\ p \in DOMAIN files' /\ files'[p] = files[p]

\* C5: for a stored record R and data D without an id field, update(table,
\* R.id, D) made while no other call is in flight is accepted with the record
\* that has D's value for every field of D and R's value for every other
\* field; once it has returned, find(table, R.id) returns that record; and
\* no other record changes meanwhile.
C5_UpdateIsShallowMerge ==
    /\ [](\A t \in Tables : \A p \in Stored(t) : \A d \in Data :
            ("id" \notin DOMAIN d /\ Idle) =>
                LET R == RecordAt(p)
                    call == updateCall(t, Get(R, "id"), d)
                IN  /\ ~call.threw
                    /\ \A f \in Fields :
                          Get(call.ops[Len(call.ops)].record, f) =
                              IF f \in DOMAIN d THEN d[f] ELSE Get(R, f))
    /\ [](\A k \in DOMAIN ops :
            (/\ ops[k].kind = "update" /\ "id" \notin DOMAIN ops[k].data
             /\ ops[k].alone /\ ops[k].ret = "resolved")
            => /\ findCall(ops[k].table, ops[k].id).ok
               /\ SameRecord(findCall(ops[k].table, ops[k].id).value,
                             ops[k].record))
    /\ [][C5_OtherRecordsKept]_vars

\* The calls made so far are creates whose data carries no id, and nothing
\* was removed.
OnlyPlainCreates ==
    /\ removed = {}
    /\ \A k \in DOMAIN ops :
          ops[k].kind = "create" /\ "id" \notin DOMAIN ops[k].data

\* C6: among creates whose data carries no id, however they overlap, the
\* returned ids are pairwise distinct, each returned record is found under its
\* id, a call rejects only when its own write failed, and every call settles.
C6_ConcurrentCreates ==
    /\ [](OnlyPlainCreates =>
            /\ \A j, k \in DOMAIN ops :
                  j # k => Get(ops[j].record, "id") # Get(ops[k].record, "id")
            /\ \A k \in DOMAIN ops :
                  /\ ops[k].ret = "resolved" =>
                        LET found == findCall(ops[k].table, Get(ops[k].record, "id"))
                        IN  found.ok /\ SameRecord(found.value, ops[k].record)
                  /\ ops[k].ret = "rejected" => ops[k].err = k)
    /\ \A k \in 1..MaxOps :
          (k \in DOMAIN ops) ~> (k \in DOMAIN ops /\ ops[k].ret # "pending")

\* Two creates on one table overlapped and both have returned their records.
C6_Witness ==
    /\ OnlyPlainCreates
    /\ Len(ops) = 2
    /\ ops[1].table = ops[2].table
    /\ ~ops[2].quiet
    /\ ops[1].ret = "resolved" /\ ops[2].ret = "resolved"

\* C7: an operation has started only if every operation submitted before it
\* has settled; so operations start in submission order, one at a time.
C7_GateSerializes ==
    \A j, k \in DOMAIN ops :
        (j < k /\ ops[k].st # "queued") => ops[j].st \in {"fulfilled", "rejected"}

\* The second operation runs after the first one failed.
C7_Witness ==
    /\ Len(ops) >= 2
    /\ ops[1].st = "rejected"
    /\ ops[2].st = "running"

\* C8: the handle of an operation rejects only with that operation's own
\* failure, and every scheduled operation is eventually run and its handle
\* settled, whatever failed before it.
C8_FailureIsolation ==
    /\ [](\A k \in DOMAIN ops :
            /\ ops[k].st = "rejected" => ops[k].err = k
            /\ ops[k].st = "fulfilled" => ops[k].err = 0)
    /\ \A k \in 1..MaxOps :
          (k \in DOMAIN ops) ~>
              (/\ k \in DOMAIN ops
               /\ ops[k].st \in {"fulfilled", "rejected"}
               /\ ops[k].err \in {0, k})

\* The first operation failed and its caller saw the rejection; the second
\* one ran, succeeded and returned.
C8_Witness ==
    /\ Len(ops) >= 2
    /\ ops[1].st = "rejected" /\ ops[1].ret = "rejected"
    /\ ops[2].st = "fulfilled" /\ ops[2].ret = "resolved"

\* C9: with no record file for the id (the table directory may be missing
\* too), find, update and remove throw NotFound, update schedules nothing,
\* and neither update nor remove changes a file.
C9_NotFoundChangesNothing ==
    \A t \in Tables, i \in CallIds :
        ~existsSync(recordPath(t, i)) =>
            /\ findCall(t, i) = Throw("NotFound")
            /\ \A d \in Data :
                  /\ updateCall(t, i, d).threw
                  /\ updateCall(t, i, d).error = "NotFound"
                  /\ updateCall(t, i, d).ops = ops
            /\ removeCall(t, i).threw
            /\ removeCall(t, i).error = "NotFound"
            /\ removeCall(t, i).files = files
            /\ removeCall(t, i).ops = ops

\* One table was never created, a record of another was removed and is
\* absent, and an update of it is still waiting on the gate.
C9_Witness ==
    /\ \E t \in Tables : tablePath(t) \notin dirs
    /\ \E q \in removed :
          /\ q \notin DOMAIN files
          /\ \E k \in DOMAIN ops :
                /\ ops[k].kind = "update" /\ ops[k].st = "queued"
                /\ recordPath(ops[k].table, ops[k].id) = q

\* Queries built from every combination of a filter, a sort, a skip, a limit
\* and a projection.
QuerySpace ==
    {NoQuery} \cup
    { [given |-> TRUE, filters |-> f, sort |-> s, skip |-> k, limit |-> l,
       selected |-> p[1], select |-> p[2]] :
        f \in { <<>>,
                << <<"a", Scalar(1)>> >>,
                << <<"id", Scalar(EmptyId)>>, <<"a", Object(<<>>)>> >>,
                << <<"a", Object(<<Operator("$ne", 1), Operator("$lt", 2)>>)>> >>,
                << <<"a", Object(<<ArrayOperator("$in", <<1, 2>>)>>)>> >>,
                << <<"a", Object(<<ArrayOperator("$nin", <<>>),
                                   Operator("$unknown", 1)>>)>> >> },
        s \in { <<>>, << <<"a", 1>> >>, << <<"id", -1>>, <<"a", 1>> >> },
        k \in {Undefined, 0, 1},
        l \in {Undefined, 0, 2},
        p \in { <<FALSE, <<>>>>, <<TRUE, <<>>>>, <<TRUE, <<"a">>>> } }

\* C10: list on a table without records, created or not, returns the empty
\* sequence for every query, without error, and creates no directory.
C10_ListOfEmptyTable ==
    \A t \in Tables :
        Stored(t) = {} =>
            \A q \in Queries \cup QuerySpace :
                /\ ~listCall(t, q).threw
                /\ listCall(t, q).value = <<>>
                /\ listCall(t, q).dirs = dirs

\* One table was never created, and all the records of another were removed.
C10_Witness ==
    /\ \E t \in Tables : tablePath(t) \notin dirs
    /\ \E t \in Tables :
          /\ tablePath(t) \in dirs
          /\ Stored(t) = {}
          /\ \E p \in removed : p[1] = t

\* ------------------------------------------------------------------ list over a stored table
\* A database directory the adapter is opened on: table t1 holds up to
\* MaxRecords record files written by earlier creates, some of them since
\* made unreadable or malformed; nothing is in flight.
MaxRecords == 3

ListVals == {Undefined, 1, 2, 3}

Documents(id) ==
    {NoAccess, Malformed} \cup
    { YAMLstringify(createRecord(id, [f \in {"a"} |-> v])) : v \in ListVals }

ListInit ==
    /\ dirs = {tablePath("t1")}
    /\ \E ids \in SUBSET (1..MaxRecords) :
          files \in { f \in [{ recordPath("t1", i) : i \in ids } ->
                                UNION { Documents(i) : i \in 1..MaxRecords }] :
                        \A p \in DOMAIN f : f[p] \in Documents(p[2]) }
    /\ nextId = 0
    /\ ops = <<>>
    /\ removed = {}
    /\ Unmounted

ListNext == \E t \in Tables, q \in Queries : list(t, q)

ListSpec == ListInit /\ [][ListNext]_vars

\* The records list reads from a table, in enumeration order.
Records(table) ==
    IF dirExists(tablePath(table)) /\ readdirSync(table).ok
    THEN ReadAll(table, readdirSync(table).value)
    ELSE <<>>

\* An array of sub-queries under $or or $and, as the filter loop sees it:
\* typeof [] is 'object', and Object.entries gives the indices as keys.
ArrayIndex == <<"0", "1", "2">>
SubQueries(qs) ==
    Object([j \in DOMAIN qs |->
               [op |-> ArrayIndex[j], array |-> FALSE, vals |-> <<qs[j]>>]])

\* The filter of a query that a record has to satisfy, with $or and $and
\* read as combinators of sub-queries.
RECURSIVE Satisfies(_, _)
Satisfies(filters, record) ==
    \A i \in DOMAIN filters :
        LET key == filters[i][1]
            c == filters[i][2]
        IN  CASE key = "$or" ->
                   \E j \in DOMAIN c.entries :
                       Satisfies(c.entries[j].vals[1], record)
              [] key = "$and" ->
                   \A j \in DOMAIN c.entries :
                       Satisfies(c.entries[j].vals[1], record)
              [] OTHER -> Matches(<<filters[i]>>, record)

Where(filters) == [EmptyQuery EXCEPT !.filters = filters]
IsA(v) == << <<"a", Scalar(v)>> >>
AtLeast(v) == << <<"a", Object(<<Operator("$gte", v)>>)>> >>

CombinatorQueries ==
    << Where(<< <<"$or", SubQueries(<<IsA(1)>>)>> >>),
       Where(<< <<"$or", SubQueries(<<IsA(1), IsA(3)>>)>> >>),
       Where(<< <<"$or", SubQueries(<<>>)>> >>),
       Where(<< <<"$and", SubQueries(<<AtLeast(2), IsA(2)>>)>> >>),
       Where(<< <<"$and", SubQueries(<<>>)>> >>),
       Where(AtLeast(2) \o << <<"$or", SubQueries(<<IsA(1), IsA(3)>>)>> >>),
       Where(<< <<"$and", SubQueries(<<AtLeast(2),
                   << <<"$or", SubQueries(<<IsA(1), IsA(3)>>)>> >> >>)>> >>) >>

\* C11: for a query with $or and/or $and, list returns exactly the records
\* that satisfy every plain field constraint, every sub-query of $and and,
\* when $or is present, at least one sub-query of $or, evaluated recursively.
C11_Combinators ==
    \A t \in Tables : \A n \in DOMAIN CombinatorQueries :
        LET q == CombinatorQueries[n]
        IN  /\ ~listCall(t, q).threw
            /\ listCall(t, q).value =
                   SelectSeq(Records(t), LAMBDA r : Satisfies(q.filters, r))

\* The slice [from, to) of a sequence, positions counted from 0.
Slice(s, from, to) ==
    SubSeq(s, from + 1, IF to < Len(s) THEN to ELSE Len(s))

\* The records that passed the filter of a query, sorted as it asks.
FilteredSorted(table, query) ==
    Sort(query.sort, Filter(query.filters, Records(table)))

PageQueries ==
    { [EmptyQuery EXCEPT !.filters = f, !.sort = s, !.skip = k, !.limit = l] :
        f \in {<<>>, AtLeast(2)},
        s \in {<<>>, << <<"a", 1>> >>, << <<"a", -1>> >>},
        k \in {Undefined, 0, 1, 2},
        l \in {Undefined, 0, 1, 2} }

\* C12: list returns the slice [skip, skip + limit) of the filtered and
\* sorted sequence, skip being $skip when given and 0 otherwise, limit being
\* $limit when given and the remaining count otherwise; with $limit given,
\* 0 included, the result has at most $limit records.
C12_PaginationSlice ==
    \A t \in Tables : \A q \in PageQueries :
        LET all == FilteredSorted(t, q)
            skip == IF q.skip = Undefined THEN 0 ELSE q.skip
            limit == IF q.limit = Undefined THEN Len(all) ELSE q.limit
        IN  /\ ~listCall(t, q).threw
            /\ listCall(t, q).value = Slice(all, skip, skip + limit)
            /\ q.limit # Undefined => Len(listCall(t, q).value) <= q.limit

\* s is kept put in the order of field key (ascending for direction 1,
\* descending otherwise), records with equal values left in the order they
\* have in kept.
IsOrdering(s, kept, key, direction) ==
    /\ Len(s) = Len(kept)
    /\ \E P \in [1..Len(kept) -> 1..Len(kept)] :
          /\ \A i, j \in 1..Len(kept) : i # j => P[i] # P[j]
          /\ \A i \in 1..Len(kept) : s[i] = kept[P[i]]
          /\ \A i, j \in 1..Len(kept) :
                (i < j /\ Get(s[i], key) = Get(s[j], key)) => P[i] < P[j]
    /\ \A i, j \in 1..Len(s) :
          i < j => IF direction = 1
                   THEN ~JsLt(Get(s[j], key), Get(s[i], key))
                   ELSE ~JsGt(Get(s[j], key), Get(s[i], key))

SortQueries ==
    { [EmptyQuery EXCEPT !.filters = f, !.sort = s, !.skip = k, !.limit = l] :
        f \in {<<>>, AtLeast(2)},
        s \in { << <<"a", 1>> >>, << <<"a", -1>> >>,
                << <<"a", -1>>, <<"id", 1>> >> },
        k \in {Undefined, 1},
        l \in {Undefined, 1, 2} }

\* C13: with $sort naming a field, list orders the records that passed the
\* filter by the first declared field only, ascending for 1 and descending
\* for -1, records with equal values keeping enumeration order, and applies
\* $skip and $limit to that filtered and ordered sequence.
C13_SortThenPaginate ==
    \A t \in Tables : \A q \in SortQueries :
        LET kept == Filter(q.filters, Records(t))
            value == listCall(t, q).value
            skip == IF q.skip = Undefined THEN 0 ELSE q.skip
            limit == IF q.limit = Undefined THEN Len(kept) ELSE q.limit
        IN  /\ ~listCall(t, q).threw
            /\ \E s \in [1..Len(kept) -> { kept[i] : i \in DOMAIN kept }] :
                  /\ IsOrdering(s, kept, q.sort[1][1], q.sort[1][2])
                  /\ value = Slice(s, skip, skip + limit)

SelectQueries ==
    { [EmptyQuery EXCEPT !.filters = f, !.selected = TRUE, !.select = s] :
        f \in {<<>>, AtLeast(2)},
        s \in {<<>>, <<"a">>, <<"id", "a">>} }

\* C14: with $select, every record list returns has the id of the stored
\* record, each selected field the stored record has with its stored value,
\* and no other key: a selected field the stored record lacks is no key of
\* the result.
C14_Projection ==
    \A t \in Tables : \A q \in SelectQueries :
        LET kept == Filter(q.filters, Records(t))
            value == listCall(t, q).value
            chosen == { q.select[i] : i \in DOMAIN q.select }
        IN  /\ ~listCall(t, q).threw
            /\ Len(value) = Len(kept)
            /\ \A i \in DOMAIN value :
                  /\ "id" \in DOMAIN value[i]
                  /\ value[i]["id"] = Get(kept[i], "id")
                  /\ DOMAIN value[i] =
                         {"id"} \cup (chosen \cap DOMAIN kept[i])
                  /\ \A f \in chosen \cap DOMAIN kept[i] :
                         value[i][f] = kept[i][f]

\* What an operator of the vocabulary asks of a record's value; the
\* operators outside it ask nothing.
Known == {"$ne", "$in", "$nin", "$lt", "$lte", "$gt", "$gte"}
Holds(e, v) ==
    LET among == { e.vals[i] : i \in DOMAIN e.vals }
        operand == e.vals[1]
        comparable == v # Undefined /\ operand # Undefined
    IN  CASE e.op = "$ne"  -> v # operand
          [] e.op = "$in"  -> v \in among
          [] e.op = "$nin" -> v \notin among
          [] e.op = "$lt"  -> comparable /\ v < operand
          [] e.op = "$lte" -> comparable /\ v <= operand
          [] e.op = "$gt"  -> comparable /\ v > operand
          [] e.op = "$gte" -> comparable /\ v >= operand

\* Whether a record is included by the field constraints of a query.
Included(filters, record) ==
    \A i \in DOMAIN filters :
        LET v == Get(record, filters[i][1])
            c == filters[i][2]
        IN  IF c.object
            THEN \A j \in DOMAIN c.entries :
                     c.entries[j].op \in Known => Holds(c.entries[j], v)
            ELSE v = c.value

Constraints ==
    { Scalar(v) : v \in {1, 2} } \cup
    { Object(<<Operator(op, v)>>) :
        op \in {"$ne", "$lt", "$lte", "$gt", "$gte", "$regex"}, v \in {1, 2} } \cup
    { Object(<<ArrayOperator(op, vals)>>) :
        op \in {"$in", "$nin"}, vals \in {<<>>, <<2>>, <<1, 3>>} } \cup
    { Object(<<>>),
      Object(<<Operator("$gte", 2), Operator("$ne", 3)>>),
      Object(<<Operator("$gt", 1), Operator("$exists", 0), Operator("$lt", 3)>>),
      Object(<<ArrayOperator("$nin", <<1>>), ArrayOperator("$all", <<1, 2>>)>>) }

FieldQueries ==
    { Where(<< <<"a", c>> >>) : c \in Constraints } \cup
    { Where(<< <<"id", Scalar(2)>>, <<"a", c>> >>) : c \in Constraints } \cup
    { Where(<< <<"id", Object(<<ArrayOperator("$in", <<1, 3>>)>>)>>,
               <<"a", Object(<<Operator("$lte", 2)>>)>> >>) }

\* The constraint with the operators outside the vocabulary taken out.
KnownOnly(c) ==
    IF c.object
    THEN [c EXCEPT !.entries = SelectSeq(c.entries, LAMBDA e : e.op \in Known)]
    ELSE c

ReadableIds(table) ==
    { p[2] : p \in { q \in Stored(table) :
                       files[q] # NoAccess /\ WellFormed(files[q]) } }

ReadableRecords(table) ==
    LET ids == ReadableIds(table)
        F[n \in 0..Cardinality(ids)] ==
            IF n = 0 THEN <<>>
            ELSE LET i == CHOOSE i \in ids : Cardinality({ j \in ids : j < i }) = n - 1
                 IN  Append(F[n - 1], YAMLparse(files[recordPath(table, i)]))
    IN  F[Cardinality(ids)]

PathOf(k) == recordPath(ops[k].table, ops[k].id)

\* The call of the k-th operation returns its record in this step.
Resolves(k) ==
    /\ k \in DOMAIN ops /\ k \in DOMAIN ops'
    /\ ops[k].ret = "pending" /\ ops'[k].ret = "resolved"

\* The file of the k-th operation holds, after this step, what the operation
\* wrote, or what an operation submitted later wrote to it.
HoldsItsWrite(k) ==
    /\ PathOf(k) \in DOMAIN files'
    /\ \/ files'[PathOf(k)] = YAMLstringify(ops[k].record)
       \/ \E j \in DOMAIN ops :
             /\ j > k /\ PathOf(j) = PathOf(k) /\ ops[j].st = "fulfilled"
             /\ files'[PathOf(k)] = YAMLstringify(ops[j].record)

\* A call returns its record only once its own write has completed, and a
\* call whose write failed rejects.
ReturnsAfterItsWrite ==
    /\ [](\A k \in DOMAIN ops :
            /\ ops[k].ret = "resolved" => ops[k].st = "fulfilled"
            /\ ops[k].st = "rejected" => ops[k].ret # "resolved")
    /\ \A k \in 1..MaxOps :
          (k \in DOMAIN ops /\ ops[k].st = "rejected")
              ~> (k \in DOMAIN ops /\ ops[k].ret = "rejected")

\* C16 as stated: create and update resolve only after their own write has
\* completed on the gate; when they resolve, the file holds the record the
\* call wrote unless a later-submitted write to it has completed; and a
\* failed write makes the call reject.
C16_DurableBeforeReturn ==
    /\ ReturnsAfterItsWrite
    /\ [][\A k \in DOMAIN ops : Resolves(k) => HoldsItsWrite(k)]_vars

\* C16: create and update resolve only after their own write has completed
\* on the gate; when they resolve, the file holds the record the call wrote
\* unless a later-submitted write to it has completed or a remove has deleted
\* it since; and a failed write makes the call reject.
C16_DurableUnlessRemoved ==
    /\ ReturnsAfterItsWrite
    /\ [][\A k \in DOMAIN ops :
            Resolves(k) =>
                \/ HoldsItsWrite(k)
                \/ PathOf(k) \notin DOMAIN files' /\ PathOf(k) \in removed']_vars

\* A create and an update of the record it made have both returned, and the
\* file holds the record the update wrote.
C16_Witness ==
    /\ Len(ops) = 2
    /\ ops[1].kind = "create" /\ ops[1].ret = "resolved"
    /\ ops[2].kind = "update" /\ ops[2].ret = "resolved"
    /\ PathOf(1) = PathOf(2)
    /\ ops[2].record # ops[1].record
    /\ PathOf(2) \in DOMAIN files
    /\ files[PathOf(2)] = YAMLstringify(ops[2].record)

\* C17: a write to one table is not held back by the writes to another: with
\* the writes to t1 slow or never settling, every write scheduled for t2 is
\* started all the same.
C17_TablesNotSerialized ==
    \A k \in 1..MaxOps :
        (k \in DOMAIN ops /\ ops[k].table = "t2")
            ~> (k \in DOMAIN ops /\ ops[k].st # "queued")

\* The calls made are two updates of one stored record, both of which read
\* it as it was before either write, and nothing was removed.
TwoUpdates ==
    /\ Len(ops) = 2
    /\ ops[1].kind = "update" /\ ops[2].kind = "update"
    /\ PathOf(1) = PathOf(2)
    /\ ops[1].base = ops[2].base
    /\ removed = {}

\* C18: two updates of a stored record R, both issued before either write
\* ran, both succeed (each fails only if its own write fails, and both
\* settle); once both have returned, the stored record is R merged with the
\* data of the later-submitted call only, the record that call returned: a
\* field of the earlier call alone is as in R.
C18_LastWriteWins ==
    /\ [](TwoUpdates =>
            /\ \A k \in {1, 2} : ops[k].ret = "rejected" => ops[k].err = k
            /\ (ops[1].ret = "resolved" /\ ops[2].ret = "resolved") =>
                  /\ PathOf(2) \in DOMAIN files
                  /\ files[PathOf(2)] =
                         YAMLstringify(Spread(ops[1].base, ops[2].data))
                  /\ SameRecord(RecordAt(PathOf(2)), ops[2].record)
                  /\ \A f \in DOMAIN ops[1].data \ DOMAIN ops[2].data :
                         Get(RecordAt(PathOf(2)), f) = Get(ops[1].base, f))
    /\ \A k \in 1..MaxOps :
          (k \in DOMAIN ops) ~> (k \in DOMAIN ops /\ ops[k].ret # "pending")

\* Both updates have returned and the field the earlier one set is lost.
C18_Witness ==
    /\ TwoUpdates
    /\ ops[1].ret = "resolved" /\ ops[2].ret = "resolved"
    /\ "a" \in DOMAIN ops[1].data /\ "a" \notin DOMAIN ops[2].data
    /\ Get(RecordAt(PathOf(2)), "a") # Get(ops[1].record, "a")

\* C19: of the remove calls made together on a stored id, the first returns
\* the record as it was stored and deletes the file, no other file being
\* touched; every further one, the file being gone, fails with NotFound and
\* deletes nothing.
C19_ConcurrentRemoval ==
    /\ [](\A t \in Tables, i \in CallIds :
            LET path == recordPath(t, i)
                call == removeCall(t, i)
            IN  /\ existsSync(path) =>
                      /\ ~call.threw
                      /\ SameRecord(call.value, RecordAt(path))
                      /\ DOMAIN call.files = DOMAIN files \ {path}
                      /\ \A p \in DOMAIN call.files : call.files[p] = files[p]
                /\ (path \in removed /\ ~existsSync(path)) =>
                      /\ call.threw /\ call.error = "NotFound"
                      /\ call.files = files)
    /\ [][\A p \in DOMAIN files \ DOMAIN files' :
            /\ removed' = removed \cup {p}
            /\ DOMAIN files' = DOMAIN files \ {p}
            /\ (removeCall(p[1], p[2]).threw)'
            /\ (removeCall(p[1], p[2]).error = "NotFound")']_vars

\* A record was removed while nothing was in flight, its file is gone, and a
\* second remove of it fails.
C19_Witness ==
    /\ Idle
    /\ \E p \in removed :
          /\ ~existsSync(p)
          /\ removeCall(p[1], p[2]).threw

\* ------------------------------------------------ the React table provider
\* useTableProvider keeps an index of one table's records and wraps the CRUD
\* methods it was given so that a result that arrives updates the index.  A
\* record is [id, a]; the methods run behind a promise: a triggered call is
\* handled by the backend at some later moment and its result reaches the
\* wrapper's continuation at some moment after that.
MaxCalls == 3
RecordIds == 1..MaxCalls
Versions == {1, 2}
Kinds == {"create", "update", "remove", "list"}

\* index.set(record): the record is stored under its id.
IndexSet(idx, record) ==
    [i \in DOMAIN idx \cup {record.id} |->
        IF i = record.id THEN record ELSE idx[i]]

\* index.remove(record): the entry under the record's id is deleted.
IndexRemove(idx, record) ==
    [i \in DOMAIN idx \ {record.id} |-> idx[i]]

\* index.setIndex(next): the whole index is replaced.
SetIndex(idx, next) == next

\* Object.fromEntries(result.map(item => [item.id, item])): the records of the
\* result, keyed by id.
fromEntries(result) ==
    [i \in { item.id : item \in result } |->
        CHOOSE item \in result : item.id = i]

\* No record: what a call has for a result until its promise is fulfilled.
NoResult == [id |-> Undefined, a |-> Undefined]

\* `result && result.id`: a result with an id that is not the empty string.
HasId(result) == result.id \notin {Undefined, EmptyId}

\* The id methods.create stores a new record under: the one its data carries
\* when it carries one, else one no answered create has been given.
newId(call) ==
    IF call.id # Undefined THEN call.id
    ELSE 1 + Cardinality({ k \in DOMAIN calls :
                              /\ calls[k].kind = "create"
                              /\ calls[k].phase # "pending"
                              /\ calls[k].ok
                              /\ calls[k].result.id # EmptyId })

\* What the methods behind the provider do with a call: the promise's outcome
\* and the records they hold afterwards.
methods(call) ==
    CASE call.kind = "create" ->
            LET record == [id |-> newId(call), a |-> call.a]
            IN  [ok |-> TRUE, result |-> record,
                 backend |-> [i \in DOMAIN backend \cup {record.id} |->
                                 IF i = record.id THEN record ELSE backend[i]]]
      [] call.kind = "update" ->
            IF call.id \in DOMAIN backend
            THEN LET record == [id |-> call.id, a |-> call.a]
                 IN  [ok |-> TRUE, result |-> record,
                      backend |-> [backend EXCEPT ![call.id] = record]]
            ELSE [ok |-> FALSE, result |-> NoResult, backend |-> backend]
      [] call.kind = "remove" ->
            IF call.id \in DOMAIN backend
            THEN [ok |-> TRUE, result |-> backend[call.id],
                  backend |-> [i \in DOMAIN backend \ {call.id} |-> backend[i]]]
            ELSE [ok |-> FALSE, result |-> NoResult, backend |-> backend]
      [] call.kind = "list" ->
            [ok |-> TRUE, result |-> { backend[i] : i \in DOMAIN backend },
             backend |-> backend]

\* trigger(props) of one of the provider's actions: the wrapper calls its
\* method and waits for the promise.  `late` is history: the ids a create or
\* an update has put into the index since this call was triggered.
trigger(kind, id, a) ==
    /\ Len(calls) < MaxCalls
    /\ calls' = Append(calls, [kind |-> kind, id |-> id, a |-> a,
                               phase |-> "pending", ok |-> FALSE,
                               result |-> IF kind = "list" THEN {}
                                          ELSE NoResult,
                               late |-> {}])
    /\ UNCHANGED <<adapter, index, backend>>

\* The backend handles a call and the promise gets its outcome.
respond(k) ==
    /\ calls[k].phase = "pending"
    /\ LET outcome == methods(calls[k])
       IN  /\ backend' = outcome.backend
           /\ calls' = [calls EXCEPT ![k].phase = "answered",
                                     ![k].ok = outcome.ok,
                                     ![k].result = outcome.result]
    /\ UNCHANGED <<adapter, index>>

\* The call does not reach the backend, or the backend fails it: the promise
\* is rejected and the backend's records are as they were.
reject(k) ==
    /\ calls[k].phase = "pending"
    /\ calls' = [calls EXCEPT ![k].phase = "answered"]
    /\ UNCHANGED <<adapter, index, backend>>

\* The calls once call k has run its continuation: the ids it put into the
\* index join the history of every call that has not run its own.
Settled(k, ids) ==
    [j \in DOMAIN calls |->
        IF j = k THEN [calls[j] EXCEPT !.phase = "settled"]
        ELSE IF calls[j].phase # "settled"
             THEN [calls[j] EXCEPT !.late = @ \cup ids]
             ELSE calls[j]]

\* The rest of createWithIndex after the await: a rejection leaves the
\* function, a result with an id is set in the index.
createWithIndex(k) ==
    /\ calls[k].kind = "create"
    /\ calls[k].phase = "answered"
    /\ LET result == calls[k].result
           put == calls[k].ok /\ HasId(result)
       IN  /\ index' = IF put THEN IndexSet(index, result) ELSE index
           /\ calls' = Settled(k, IF put THEN {result.id} ELSE {})
    /\ UNCHANGED <<adapter, backend>>

\* The rest of updateWithIndex after the await.
updateWithIndex(k) ==
    /\ calls[k].kind = "update"
    /\ calls[k].phase = "answered"
    /\ LET result == calls[k].result
           put == calls[k].ok /\ HasId(result)
       IN  /\ index' = IF put THEN IndexSet(index, result) ELSE index
           /\ calls' = Settled(k, IF put THEN {result.id} ELSE {})
    /\ UNCHANGED <<adapter, backend>>

\* The rest of removeWithIndex after the await.
removeWithIndex(k) ==
    /\ calls[k].kind = "remove"
    /\ calls[k].phase = "answered"
    /\ LET result == calls[k].result
       IN  index' = IF calls[k].ok /\ HasId(result)
                    THEN IndexRemove(index, result) ELSE index
    /\ calls' = Settled(k, {})
    /\ UNCHANGED <<adapter, backend>>

\* The rest of listWithIndex after the await: the result, when it is an
\* array, becomes the index.
listWithIndex(k) ==
    /\ calls[k].kind = "list"
    /\ calls[k].phase = "answered"
    /\ index' = IF calls[k].ok
                THEN SetIndex(index, fromEntries(calls[k].result))
                ELSE index
    /\ calls' = Settled(k, {})
    /\ UNCHANGED <<adapter, backend>>

\* A provider mounted without records over a backend without records.
ProviderInit ==
    /\ dirs = {}
    /\ files = <<>>
    /\ nextId = 0
    /\ ops = <<>>
    /\ removed = {}
    /\ index = <<>>
    /\ backend = <<>>
    /\ calls = <<>>

ProviderNext ==
    \/ \E kind \in Kinds, i \in RecordIds \cup {Undefined, EmptyId},
          a \in Versions :
            /\ kind = "create" => i \in {Undefined, EmptyId}
            /\ kind \in {"update", "remove"} => i \in RecordIds
            /\ kind = "list" => i = Undefined /\ a = 1
            /\ kind = "remove" => a = 1
            /\ trigger(kind, i, a)
    \/ \E k \in DOMAIN calls : respond(k)
    \/ \E k \in DOMAIN calls : reject(k)
    \/ \E k \in DOMAIN calls : createWithIndex(k)
    \/ \E k \in DOMAIN calls : updateWithIndex(k)
    \/ \E k \in DOMAIN calls : removeWithIndex(k)
    \/ \E k \in DOMAIN calls : listWithIndex(k)

ProviderSpec == ProviderInit /\ [][ProviderNext]_vars

\* The call's continuation runs in this step.
Settles(k) == calls[k].phase = "answered" /\ calls'[k].phase = "settled"

\* C21: a record in the index leaves it only when a remove of its id that
\* succeeded settles, or when a list that succeeded settles whose result is
\* without it and that was triggered after every create and update that put
\* the record into the index had settled; and when a call that failed
\* settles, the index is as it was.
C21_IndexUnderOverlap ==
    [][ /\ \A i \in DOMAIN index \ DOMAIN index' :
              \E k \in DOMAIN calls :
                  /\ Settles(k)
                  /\ calls[k].ok
                  /\ \/ calls[k].kind = "remove" /\ calls[k].result.id = i
                     \/ /\ calls[k].kind = "list"
                        /\ i \notin { item.id : item \in calls[k].result }
                        /\ i \notin calls[k].late
        /\ \A k \in DOMAIN calls :
              Settles(k) /\ ~calls[k].ok => index' = index ]_vars

====
